---- MODULE Spec2Model ----
(***************************************************************************)
(* Model of coincidence.py: the Controls acquisition generator             *)
(* (collect_data), the DataChart rolling buffer and the run_gui main loop. *)
(*                                                                         *)
(* Python runs the generator and its consumer on one thread, so one        *)
(* program counter `pc` follows control through collect_data and the loop  *)
(* body.  Widget callbacks (STOP button, check buttons, text box) run only *)
(* while the loop is inside fig.canvas.flush_events()/plt.pause().         *)
(*                                                                         *)
(* Floats are modelled exactly as fixed-point integers in units of         *)
(* 1/Scale (a float x is the integer x*Scale).                             *)
(***************************************************************************)
EXTENDS Integers, Sequences, FiniteSets, TLC

VARIABLES
    gui,          \* TRUE: the session is run_gui's; FALSE: a caller iterating Controls.collect_data(samples) itself
    filename,     \* Controls.filename: "none" (None) or a path
    file,         \* Controls.file: "none" (never opened), "open" or "closed"
    keep_running, \* Controls.keep_running
    samples,      \* collect_data's local budget `samples`
    ser,          \* the serial port: "open" or "closed"
    tx,           \* bytes written to the serial port, in order
    nread,        \* number of bytes read from the serial port
    log,          \* the records written to the file, in order
    pc,           \* where control is
    exc,          \* the exception that reached the caller ("none" when none)
    data,         \* the list object `data` (shared by generator and loop)
    checks,       \* CheckButtons status [AB, AB', BB']
    text,         \* text_box.text
    tau,          \* run_gui's local `tau`
    charts,       \* the 7 DataChart objects, in frame order
    yielded,      \* history: the frames as they were when yielded
    published,    \* history: number of frames the consumer finished processing
    stopAt,       \* history: frames yielded when stop was first requested (-1: never)
    samples0,     \* history: the `samples` argument collect_data was called with
    active,       \* history: the last valid 3-element vector the loop evaluated
    ingested,     \* history: per chart, the values passed to update, in order
    nevents,      \* number of operator events so far
    flags,        \* run_gui's locals AB_correct, AB_prime_correct, BB_prime_correct
    wire          \* history: the bytes of the frame read last

vars == <<gui, filename, file, keep_running, samples, ser, tx, nread, log, pc,
          exc, data, checks, text, tau, charts, yielded, published, stopAt,
          samples0, active, ingested, nevents, flags, wire>>

-----------------------------------------------------------------------------
(* Bounds *)

MaxFrames == 3     \* frames the instrument delivers to an unbounded stream
MaxBudget == 2     \* largest `samples` argument of a bounded acquisition
MaxEvents == 3     \* operator events (clicks, text edits) in one session
Capacity == 2      \* DataChart.samples = int(interval/delta_t)
ExtraUpdates == 2  \* updates past capacity in the stand-alone chart specification

Scale == 10        \* fixed-point denominator of the float representation
FrameBytes == 28
BlockBytes == 4
NChannels == 7

Min(a, b) == IF a < b THEN a ELSE b

-----------------------------------------------------------------------------
(* Floats *)

\* float(n) of an integer count
Float(n) == n * Scale
\* a * b on floats; exact whenever one factor is a whole number
FMul(a, b) == (a * b) \div Scale

-----------------------------------------------------------------------------
(* Frame decoding: ser.read(4)[::-1] read as little-endian uint32 *)

Reverse(s) == [i \in 1..Len(s) |-> s[Len(s) + 1 - i]]

\* np.frombuffer(b, dtype=np.uint32) on a little-endian block of 4 bytes
FromBufferLE(b) == b[1] + 256 * b[2] + 65536 * b[3] + 16777216 * b[4]

\* the block read as it arrives, without the [::-1]
DecodeBlockNoReverse(b) == Float(FromBufferLE(b))

DecodeBlock(b) == Float(FromBufferLE(Reverse(b)))

\* the list comprehension of line 47 over the 28 bytes of one frame
DecodeFrame(w) ==
    [i \in 1..NChannels |->
        DecodeBlock(SubSeq(w, BlockBytes * (i - 1) + 1, BlockBytes * i))]

\* Instrument side: the wire image of a frame of small counts
WireBlock(n) == <<0, 0, n \div 256, n % 256>>
WireFrame(f) ==
    WireBlock(f[1]) \o WireBlock(f[2]) \o WireBlock(f[3]) \o WireBlock(f[4])
        \o WireBlock(f[5]) \o WireBlock(f[6]) \o WireBlock(f[7])

WireFrames == { WireFrame(<<10, 10, 10, 5, 5, 5, 2>>),
                WireFrame(<<3, 2, 1, 300, 7, 0, 1>>) }

-----------------------------------------------------------------------------
(* Python values held by `tau`: a list of floats, a bare float, or no      *)
(* binding yet (a local never assigned).                                   *)

PyList(items) == [type |-> "list", items |-> items]
PyFloat(x) == [type |-> "float", items |-> <<x>>]
Unbound == [type |-> "unbound", items |-> <<>>]

\* run_gui's argument initial_tau, a valid 3-element list ([0.2, 0.3, 0.4])
initial_tau == PyList(<<2, 3, 4>>)

\* What the operator can leave in the text box.  The box starts with
\* str(initial_tau).
TextInitial == "[0.2, 0.3, 0.4]"
TextValid == "[0.1, 0.1, 0.1]"
TextShort == "[0.1, 0.1]"
TextScalar == "5"
TextPartial == "[0.1, 0.1"
Texts == {TextInitial, TextValid, TextShort, TextScalar, TextPartial}

\* eval(text): the value, or raised |-> TRUE for a SyntaxError
PyEval(t) ==
    CASE t = TextInitial -> [raised |-> FALSE, value |-> initial_tau]
      [] t = TextValid   -> [raised |-> FALSE, value |-> PyList(<<1, 1, 1>>)]
      [] t = TextShort   -> [raised |-> FALSE, value |-> PyList(<<1, 1>>)]
      [] t = TextScalar  -> [raised |-> FALSE, value |-> PyFloat(Float(5))]
      [] OTHER           -> [raised |-> TRUE, value |-> Unbound]

\* len(v) raises TypeError for a float
LenRaises(v) == v.type # "list"
PyLen(v) == Len(v.items)

\* v[i] (0-based): the exception it raises, "none" when it yields a value
IndexError(v, i) ==
    CASE v.type = "unbound" -> "UnboundLocalError"
      [] v.type = "float"   -> "TypeError"
      [] i >= Len(v.items)  -> "IndexError"
      [] OTHER              -> "none"
PyIndex(v, i) == v.items[i + 1]

\* Lines 163-170: the value of `tau` after the try block, given its value
\* before.  `tau = eval(...)` has already bound tau when len(tau) raises.
EvalTau(t, old) ==
    LET r == PyEval(t) IN
    IF r.raised THEN old
    ELSE IF LenRaises(r.value) THEN r.value
    ELSE IF PyLen(r.value) # 3 THEN initial_tau
    ELSE r.value

\* the guarded statement with a negative result clamped to 0
CorrectChannelClamped(r, enabled, ch, a, b, v, k) ==
    IF r.exc # "none" \/ ~enabled THEN r
    ELSE IF IndexError(v, k) # "none" THEN [r EXCEPT !.exc = IndexError(v, k)]
    ELSE LET x == r.data[ch + 1]
                    - FMul(FMul(FMul(r.data[a + 1], r.data[b + 1]), Float(2)), PyIndex(v, k))
         IN [r EXCEPT !.data[ch + 1] = IF x < 0 THEN 0 ELSE x]

\* One guarded statement of lines 172-179: data[ch] = data[ch] - data[a]*data[b]*2*tau[k]
\* (0-based indices); r carries the list and the exception raised so far.
CorrectChannel(r, enabled, ch, a, b, v, k) ==
    IF r.exc # "none" \/ ~enabled THEN r
    ELSE IF IndexError(v, k) # "none" THEN [r EXCEPT !.exc = IndexError(v, k)]
    ELSE [r EXCEPT !.data[ch + 1] =
            r.data[ch + 1]
              - FMul(FMul(FMul(r.data[a + 1], r.data[b + 1]), Float(2)), PyIndex(v, k))]

\* the correction with the AB' statement reading data[3] where it should
\* read data[0]
CorrectChained(d, c, v) ==
    LET r0 == [data |-> d, exc |-> "none"]
        r1 == CorrectChannel(r0, c[1], 3, 0, 1, v, 0)
        r2 == CorrectChannel(r1, c[2], 4, 3, 2, v, 1)
        r3 == CorrectChannel(r2, c[3], 5, 1, 2, v, 2)
    IN r3

\* Lines 172-179 on list d with flags c = <<AB, AB', BB'>> and vector v
Correct(d, c, v) ==
    LET r0 == [data |-> d, exc |-> "none"]
        r1 == CorrectChannel(r0, c[1], 3, 0, 1, v, 0)
        r2 == CorrectChannel(r1, c[2], 4, 0, 2, v, 1)
        r3 == CorrectChannel(r2, c[3], 5, 1, 2, v, 2)
    IN r3

-----------------------------------------------------------------------------
(* DataChart *)

\* delta_t for a chart of N samples, in time units chosen so that
\* np.linspace(0, interval, N) is exact: one unit is delta_t/(N-1)
DeltaT(N) == IF N > 1 THEN N - 1 ELSE 1
\* np.linspace(0, interval, N)[i-1]
Linspace(N, total, i) == IF N > 1 THEN ((i - 1) * total) \div (N - 1) ELSE 0

\* DataChart.__init__ with int(interval/delta_t) = N
NewChart(N) ==
    [samples     |-> N,
     interval    |-> N * DeltaT(N),
     delta_t     |-> DeltaT(N),
     t_buffer    |-> [i \in 1..N |-> Linspace(N, N * DeltaT(N), i)],
     data_buffer |-> [i \in 1..N |-> 0],
     index       |-> 0,
     time        |-> 0,
     data        |-> 0,
     sum         |-> 0]

\* buf[:-1] = buf[1:]
ShiftLeft(buf) ==
    [i \in 1..Len(buf) |-> IF i < Len(buf) THEN buf[i + 1] ELSE buf[i]]

\* update without the shift: a full window overwrites its newest slot
DataChartUpdateNoShift(c, d) ==
    LET idx == IF c.index = c.samples THEN c.index - 1 ELSE c.index
    IN [c EXCEPT !.data = d,
                 !.t_buffer[idx + 1] = c.time,
                 !.data_buffer[idx + 1] = d,
                 !.time = c.time + c.delta_t,
                 !.index = Min(idx + 1, c.samples),
                 !.sum = c.sum + d]

\* update keeping the sum of the window only: an evicted value is subtracted
DataChartUpdateWindowedSum(c, d) ==
    LET full == c.index = c.samples
        tb   == IF full THEN ShiftLeft(c.t_buffer) ELSE c.t_buffer
        db   == IF full THEN ShiftLeft(c.data_buffer) ELSE c.data_buffer
        idx  == IF full THEN c.index - 1 ELSE c.index
    IN [c EXCEPT !.data = d,
                 !.t_buffer = [tb EXCEPT ![idx + 1] = c.time],
                 !.data_buffer = [db EXCEPT ![idx + 1] = d],
                 !.time = c.time + c.delta_t,
                 !.index = Min(idx + 1, c.samples),
                 !.sum = c.sum + d - (IF full THEN c.data_buffer[1] ELSE 0)]

\* update advancing the clock first and storing the advanced time
DataChartUpdateAdvanceFirst(c, d) ==
    LET full == c.index = c.samples
        tb   == IF full THEN ShiftLeft(c.t_buffer) ELSE c.t_buffer
        db   == IF full THEN ShiftLeft(c.data_buffer) ELSE c.data_buffer
        idx  == IF full THEN c.index - 1 ELSE c.index
    IN [c EXCEPT !.data = d,
                 !.t_buffer = [tb EXCEPT ![idx + 1] = c.time + c.delta_t],
                 !.data_buffer = [db EXCEPT ![idx + 1] = d],
                 !.time = c.time + c.delta_t,
                 !.index = Min(idx + 1, c.samples),
                 !.sum = c.sum + d]

\* DataChart.update(d)
DataChartUpdate(c, d) ==
    LET full == c.index = c.samples
        tb   == IF full THEN ShiftLeft(c.t_buffer) ELSE c.t_buffer
        db   == IF full THEN ShiftLeft(c.data_buffer) ELSE c.data_buffer
        idx  == IF full THEN c.index - 1 ELSE c.index
    IN [c EXCEPT !.data = d,
                 !.t_buffer = [tb EXCEPT ![idx + 1] = c.time],
                 !.data_buffer = [db EXCEPT ![idx + 1] = d],
                 !.time = c.time + c.delta_t,
                 !.index = Min(idx + 1, c.samples),
                 !.sum = c.sum + d]

\* The window a chart shows after an update: data_buffer[:index]
Window(c) == SubSeq(c.data_buffer, 1, c.index)
WindowTimes(c) == SubSeq(c.t_buffer, 1, c.index)

-----------------------------------------------------------------------------
(* Initial state: Controls.__init__ has run; in a run_gui session the      *)
(* charts and widgets exist and collect_data() is about to be iterated.    *)

NoFlags == <<FALSE, FALSE, FALSE>>

Init ==
    /\ gui \in BOOLEAN
    /\ filename \in (IF gui THEN {"./output.txt"} ELSE {"none", "./output.txt"})
    /\ samples0 \in (IF gui THEN {-1} ELSE -1..MaxBudget)
    /\ file = (IF filename = "none" THEN "none" ELSE "open")
    /\ keep_running = TRUE
    /\ samples = samples0
    /\ ser = "open"
    /\ tx = <<>>
    /\ nread = 0
    /\ log = <<>>
    /\ pc = "new"
    /\ exc = "none"
    /\ data = <<>>
    /\ checks = NoFlags
    /\ text = TextInitial
    /\ tau = Unbound
    /\ charts = [n \in 1..NChannels |-> NewChart(Capacity)]
    /\ yielded = <<>>
    /\ published = 0
    /\ stopAt = -1
    /\ active = initial_tau
    /\ ingested = [n \in 1..NChannels |-> <<>>]
    /\ nevents = 0
    /\ flags = NoFlags
    /\ wire = <<>>

ctlVars == <<gui, filename, samples0>>
guiVars == <<checks, text, tau, charts, active, ingested>>

-----------------------------------------------------------------------------
(* Controls.collect_data *)

\* the first next() without the start command
StartSilent ==
    /\ pc = "new"
    /\ pc' = "check"
    /\ UNCHANGED <<ctlVars, flags, wire, guiVars, file, keep_running, samples,
                   ser, tx, nread, log, exc, data, yielded, published, stopAt,
                   nevents>>

\* line 41: first next() on the generator
Start ==
    /\ pc = "new"
    /\ tx' = Append(tx, "s")
    /\ pc' = "check"
    /\ UNCHANGED <<ctlVars, flags, wire, guiVars, file, keep_running, samples, ser, nread,
                   log, exc, data, yielded, published, stopAt, nevents>>

\* the loop as a do-while: the first frame is read before any test
LoopCheckDoWhile ==
    /\ pc = "check"
    /\ IF yielded = <<>> \/ (keep_running /\ samples # 0)
          THEN /\ samples' = (IF samples > 0 THEN samples - 1 ELSE samples)
               /\ pc' = "read"
          ELSE /\ samples' = samples
               /\ pc' = "teardown"
    /\ UNCHANGED <<ctlVars, flags, wire, guiVars, file, keep_running, ser, tx,
                   nread, log, exc, data, yielded, published, stopAt, nevents>>

\* the while test without the budget decrement
LoopCheckNoDecrement ==
    /\ pc = "check"
    /\ pc' = (IF keep_running /\ samples # 0 THEN "read" ELSE "teardown")
    /\ UNCHANGED <<ctlVars, flags, wire, guiVars, file, keep_running, samples, ser, tx,
                   nread, log, exc, data, yielded, published, stopAt, nevents>>

\* lines 43-45: the while test and the budget decrement
LoopCheck ==
    /\ pc = "check"
    /\ IF keep_running /\ samples # 0
          THEN /\ samples' = (IF samples > 0 THEN samples - 1 ELSE samples)
               /\ pc' = "read"
          ELSE /\ samples' = samples
               /\ pc' = "teardown"
    /\ UNCHANGED <<ctlVars, flags, wire, guiVars, file, keep_running, ser, tx, nread, log,
                   exc, data, yielded, published, stopAt, nevents>>

\* line 47: seven blocking reads of 4 bytes, decoded into a new list.
\* An unbounded stream is cut off after MaxFrames frames (the instrument
\* then stays silent and the read blocks).
ReadFrame ==
    /\ pc = "read"
    /\ samples0 >= 0 \/ Len(yielded) < MaxFrames
    /\ \E w \in WireFrames :
          /\ wire' = w
          /\ data' = DecodeFrame(w)
          /\ nread' = nread + Len(w)
    /\ pc' = "write"
    /\ UNCHANGED <<ctlVars, flags, guiVars, file, keep_running, samples, ser, tx, log,
                   exc, yielded, published, stopAt, nevents>>

\* line 47: one of the seven ser.read(4) calls raises SerialException after
\* j whole blocks; nothing catches it in collect_data or run_gui
ReadFails ==
    /\ pc = "read"
    /\ \E j \in 0..(NChannels - 1) : nread' = nread + BlockBytes * j
    /\ pc' = "raised"
    /\ exc' = "SerialException"
    /\ UNCHANGED <<ctlVars, flags, wire, guiVars, file, keep_running, samples, ser, tx, log,
                   data, yielded, published, stopAt, nevents>>

\* the logging test inverted: a record only when filename is None
WriteFileInverted ==
    /\ pc = "write"
    /\ log' = (IF filename = "none" THEN Append(log, data) ELSE log)
    /\ pc' = "yield"
    /\ UNCHANGED <<ctlVars, flags, wire, guiVars, file, keep_running, samples, ser, tx,
                   nread, exc, data, yielded, published, stopAt, nevents>>

\* lines 48-49 and 30-31: one record with the list as it is now
WriteFile ==
    /\ pc = "write"
    /\ filename = "none" \/ file = "open"
    /\ log' = (IF filename # "none" THEN Append(log, data) ELSE log)
    /\ pc' = "yield"
    /\ UNCHANGED <<ctlVars, flags, wire, guiVars, file, keep_running, samples, ser, tx,
                   nread, exc, data, yielded, published, stopAt, nevents>>

\* line 50: control passes to the consumer with the list
Yield ==
    /\ pc = "yield"
    /\ yielded' = Append(yielded, data)
    /\ pc' = (IF gui THEN "correct" ELSE "held")
    /\ UNCHANGED <<ctlVars, flags, wire, guiVars, file, keep_running, samples, ser, tx,
                   nread, log, exc, data, published, stopAt, nevents>>

\* the teardown without the stop command
TeardownNoStop ==
    /\ pc = "teardown"
    /\ file' = (IF filename # "none" THEN "closed" ELSE file)
    /\ pc' = (IF gui THEN "close" ELSE "done")
    /\ UNCHANGED <<ctlVars, flags, wire, guiVars, keep_running, samples, ser, tx, nread,
                   log, exc, data, yielded, published, stopAt, nevents>>

\* lines 51-55: close the file, then send the stop command
Teardown ==
    /\ pc = "teardown"
    /\ file' = (IF filename # "none" THEN "closed" ELSE file)
    /\ tx' = Append(tx, "x")
    /\ pc' = (IF gui THEN "close" ELSE "done")
    /\ UNCHANGED <<ctlVars, flags, wire, guiVars, keep_running, samples, ser, nread, log,
                   exc, data, yielded, published, stopAt, nevents>>

-----------------------------------------------------------------------------
(* A caller iterating collect_data(samples) itself *)

\* the caller is done with the frame and asks for the next one
NextRequest ==
    /\ pc = "held"
    /\ published' = published + 1
    /\ pc' = "check"
    /\ UNCHANGED <<ctlVars, flags, wire, guiVars, file, keep_running, samples, ser, tx,
                   nread, log, exc, data, yielded, stopAt, nevents>>

-----------------------------------------------------------------------------
(* run_gui's loop body *)

Valid3(v) == v.type = "list" /\ Len(v.items) = 3

\* line 162: the three flags are read once into locals
GetStatus ==
    /\ pc = "correct"
    /\ flags' = checks
    /\ pc' = "evaltau"
    /\ UNCHANGED <<ctlVars, wire, guiVars, file, keep_running, samples, ser,
                   tx, nread, log, exc, data, yielded, published, stopAt,
                   nevents>>

\* lines 163-170: the text box is evaluated once
EvalText ==
    /\ pc = "evaltau"
    /\ tau' = EvalTau(text, tau)
    /\ active' = (IF ~PyEval(text).raised /\ Valid3(PyEval(text).value)
                     THEN PyEval(text).value ELSE active)
    /\ pc' = "apply"
    /\ UNCHANGED <<ctlVars, flags, wire, checks, text, charts, ingested, file,
                   keep_running, samples, ser, tx, nread, log, exc, data,
                   yielded, published, stopAt, nevents>>

\* the correction with the record written from the list after it
CorrectFrameLogged ==
    /\ pc = "apply"
    /\ LET r == Correct(data, flags, tau)
       IN /\ data' = r.data
          /\ log' = [log EXCEPT ![Len(log)] = r.data]
          /\ exc' = r.exc
          /\ pc' = (IF r.exc = "none" THEN "update" ELSE "raised")
    /\ UNCHANGED <<ctlVars, flags, wire, guiVars, file, keep_running, samples,
                   ser, tx, nread, yielded, published, stopAt, nevents>>

\* the correction computed and dropped: the list is left as it was yielded
CorrectFrameDropped ==
    /\ pc = "apply"
    /\ LET r == Correct(data, flags, tau)
       IN /\ data' = data
          /\ exc' = r.exc
          /\ pc' = (IF r.exc = "none" THEN "update" ELSE "raised")
    /\ UNCHANGED <<ctlVars, flags, wire, guiVars, file, keep_running, samples,
                   ser, tx, nread, log, yielded, published, stopAt, nevents>>

\* lines 172-179: the list is corrected in place with the locals read above.
\* An exception of the correction leaves run_gui (nothing catches it).
CorrectFrame ==
    /\ pc = "apply"
    /\ LET r == Correct(data, flags, tau)
       IN /\ data' = r.data
          /\ exc' = r.exc
          /\ pc' = (IF r.exc = "none" THEN "update" ELSE "raised")
    /\ UNCHANGED <<ctlVars, flags, wire, guiVars, file, keep_running, samples,
                   ser, tx, nread, log, yielded, published, stopAt, nevents>>

\* lines 182-186: every chart ingests its channel of the list
UpdateCharts ==
    /\ pc = "update"
    /\ charts' = [n \in 1..NChannels |-> DataChartUpdate(charts[n], data[n])]
    /\ ingested' = [n \in 1..NChannels |-> Append(ingested[n], data[n])]
    /\ published' = published + 1
    /\ pc' = "events"
    /\ UNCHANGED <<ctlVars, flags, wire, checks, text, tau, active, file, keep_running,
                   samples, ser, tx, nread, log, exc, data, yielded, stopAt,
                   nevents>>

\* lines 187-188 return: the loop asks the generator for the next frame
PauseReturns ==
    /\ pc = "events"
    /\ pc' = "check"
    /\ UNCHANGED <<ctlVars, flags, wire, guiVars, file, keep_running, samples, ser, tx,
                   nread, log, exc, data, yielded, published, stopAt, nevents>>

\* run_gui returning without line 189
CloseSerialSkipped ==
    /\ pc = "close"
    /\ pc' = "done"
    /\ UNCHANGED <<ctlVars, flags, wire, guiVars, file, keep_running, samples,
                   ser, tx, nread, log, exc, data, yielded, published, stopAt,
                   nevents>>

\* line 189
CloseSerial ==
    /\ pc = "close"
    /\ ser' = "closed"
    /\ pc' = "done"
    /\ UNCHANGED <<ctlVars, flags, wire, guiVars, file, keep_running, samples, tx, nread,
                   log, exc, data, yielded, published, stopAt, nevents>>

-----------------------------------------------------------------------------
(* Operator events.  In run_gui the callbacks run inside                   *)
(* flush_events()/pause() (lines 187-188); a caller of its own can call    *)
(* stop_pressed before iterating or while it holds a frame.                *)

\* callbacks running at any point of the loop body (as on another thread)
EventPointAnywhere ==
    IF gui THEN pc \in {"correct", "evaltau", "apply", "update", "events"}
           ELSE pc \in {"new", "held"}

EventPoint == IF gui THEN pc = "events" ELSE pc \in {"new", "held"}

\* Controls.stop_pressed
StopPressed ==
    /\ EventPoint
    /\ nevents < MaxEvents
    /\ keep_running' = FALSE
    /\ stopAt' = (IF stopAt = -1 THEN Len(yielded) ELSE stopAt)
    /\ nevents' = nevents + 1
    /\ UNCHANGED <<ctlVars, flags, wire, guiVars, file, samples, ser, tx, nread, log, pc,
                   exc, data, yielded, published>>

\* a click on check button i toggles checks.get_status()[i]
ClickCheck ==
    /\ gui /\ EventPoint
    /\ nevents < MaxEvents
    /\ \E i \in 1..3 : checks' = [checks EXCEPT ![i] = ~checks[i]]
    /\ nevents' = nevents + 1
    /\ UNCHANGED <<ctlVars, flags, wire, text, tau, charts, active, ingested, file,
                   keep_running, samples, ser, tx, nread, log, pc, exc, data,
                   yielded, published, stopAt>>

\* an edit of the text box leaves text_box.text = t
TypeText ==
    /\ gui /\ EventPoint
    /\ nevents < MaxEvents
    /\ \E t \in Texts \ {text} : text' = t
    /\ nevents' = nevents + 1
    /\ UNCHANGED <<ctlVars, flags, wire, checks, tau, charts, active, ingested, file,
                   keep_running, samples, ser, tx, nread, log, pc, exc, data,
                   yielded, published, stopAt>>

-----------------------------------------------------------------------------

ProgramStep ==
    \/ Start
    \/ LoopCheck
    \/ ReadFrame
    \/ WriteFile
    \/ Yield
    \/ Teardown
    \/ NextRequest
    \/ GetStatus
    \/ EvalText
    \/ CorrectFrame
    \/ UpdateCharts
    \/ PauseReturns
    \/ CloseSerial

Next ==
    \/ ProgramStep
    \/ ReadFails
    \/ StopPressed
    \/ ClickCheck
    \/ TypeText

Spec == Init /\ [][Next]_vars

-----------------------------------------------------------------------------
(* A bounded or unbounded stream driven by a caller of its own, with the   *)
(* generator and its caller always scheduled (Python runs them to the next *)
(* blocking read).                                                         *)

StreamInit == Init /\ ~gui

StreamStep ==
    \/ Start
    \/ LoopCheck
    \/ ReadFrame
    \/ WriteFile
    \/ Yield
    \/ Teardown
    \/ NextRequest

StreamNext ==
    \/ StreamStep
    \/ ReadFails
    \/ StopPressed

StreamSpec == StreamInit /\ [][StreamNext]_vars /\ WF_vars(StreamStep)

-----------------------------------------------------------------------------
(* A caller that iterates collect_data again on the same Controls object   *)
(* after the first stream has ended.                                       *)

MaxRuns == 2   \* calls of collect_data on one Controls object

\* collect_data(samples) called again: a new generator, not yet started
Restart ==
    /\ ~gui
    /\ pc = "done"
    /\ Len(SelectSeq(tx, LAMBDA b : b = "s")) < MaxRuns
    /\ \E n \in -1..MaxBudget : samples' = n /\ samples0' = n
    /\ pc' = "new"
    /\ UNCHANGED <<gui, filename, flags, wire, guiVars, file, keep_running,
                   ser, tx, nread, log, exc, data, yielded, published, stopAt,
                   nevents>>

\* lines 48-49 and 30-31 on a file the first stream closed: writelines
\* raises ValueError out of the generator
WriteFileClosed ==
    /\ pc = "write"
    /\ filename # "none" /\ file = "closed"
    /\ pc' = "raised"
    /\ exc' = "ValueError"
    /\ UNCHANGED <<ctlVars, flags, wire, guiVars, file, keep_running, samples,
                   ser, tx, nread, log, data, yielded, published, stopAt,
                   nevents>>

RestartNext ==
    \/ StreamNext
    \/ Restart
    \/ WriteFileClosed

RestartSpec == StreamInit /\ [][RestartNext]_vars

-----------------------------------------------------------------------------
(* One DataChart of any capacity 1..Capacity fed any sequence of values *)

ChartValues == {Float(-15), Float(0), Float(5)}

ChartInit ==
    /\ gui = FALSE
    /\ filename = "none"
    /\ samples0 = 0
    /\ file = "none"
    /\ keep_running = TRUE
    /\ samples = 0
    /\ ser = "open"
    /\ tx = <<>>
    /\ nread = 0
    /\ log = <<>>
    /\ pc = "chart"
    /\ exc = "none"
    /\ data = <<>>
    /\ checks = NoFlags
    /\ text = TextInitial
    /\ tau = Unbound
    /\ \E N \in 1..Capacity : charts = [n \in 1..NChannels |-> NewChart(N)]
    /\ yielded = <<>>
    /\ published = 0
    /\ stopAt = -1
    /\ active = initial_tau
    /\ ingested = [n \in 1..NChannels |-> <<>>]
    /\ nevents = 0
    /\ flags = NoFlags
    /\ wire = <<>>

\* chart.update(v) on the first chart
ChartUpdate ==
    /\ pc = "chart"
    /\ Len(ingested[1]) < charts[1].samples + ExtraUpdates
    /\ \E v \in ChartValues :
          /\ charts' = [charts EXCEPT ![1] = DataChartUpdate(charts[1], v)]
          /\ ingested' = [ingested EXCEPT ![1] = Append(ingested[1], v)]
    /\ UNCHANGED <<ctlVars, flags, wire, checks, text, tau, active, file, keep_running,
                   samples, ser, tx, nread, log, pc, exc, data, yielded,
                   published, stopAt, nevents>>

ChartSpec == ChartInit /\ [][ChartUpdate]_vars

-----------------------------------------------------------------------------
(* The list comprehension of line 47 on its own: seven reads of one block  *)
(* each, decoded as they arrive.  The first byte of a block stays small so *)
(* that the count times Scale fits the model checker's integers.           *)

AnyBlocks == { <<0, 0, 0, 1>>, <<1, 2, 3, 4>>, <<0, 255, 0, 7>> }

DecodeInit ==
    /\ gui = FALSE
    /\ filename = "none"
    /\ samples0 = -1
    /\ file = "none"
    /\ keep_running = TRUE
    /\ samples = -1
    /\ ser = "open"
    /\ tx = <<"s">>
    /\ nread = 0
    /\ log = <<>>
    /\ pc = "decode"
    /\ exc = "none"
    /\ data = <<>>
    /\ checks = NoFlags
    /\ text = TextInitial
    /\ tau = Unbound
    /\ charts = [n \in 1..NChannels |-> NewChart(Capacity)]
    /\ yielded = <<>>
    /\ published = 0
    /\ stopAt = -1
    /\ active = initial_tau
    /\ ingested = [n \in 1..NChannels |-> <<>>]
    /\ nevents = 0
    /\ flags = NoFlags
    /\ wire = <<>>

\* one round of the comprehension: float(np.frombuffer(self.ser.read(4)[::-1], ...))
ReadBlock ==
    /\ pc = "decode"
    /\ Len(data) < NChannels
    /\ \E b \in AnyBlocks :
          /\ wire' = wire \o b
          /\ nread' = nread + Len(b)
          /\ data' = Append(data, DecodeBlock(b))
    /\ UNCHANGED <<ctlVars, flags, guiVars, file, keep_running, samples, ser,
                   tx, log, pc, exc, yielded, published, stopAt, nevents>>

DecodeSpec == DecodeInit /\ [][ReadBlock]_vars

-----------------------------------------------------------------------------
(* Properties *)

Count(seq, b) == Cardinality({i \in 1..Len(seq) : seq[i] = b})
Last(seq) == seq[Len(seq)]

\* C1: in an unbounded stream (samples < 0) stopped after frame k was
\* yielded and before frame k+1 was requested, exactly k frames are yielded
\* and published; the stop command 'x' is sent exactly once, only after
\* that, and the log file is then closed.
C1_StopAfterFrameK ==
    /\ Count(tx, "x") <= 1
    /\ Count(tx, "x") = 1 => pc \in {"close", "done"}
    /\ (samples0 < 0 /\ pc = "done") =>
          /\ stopAt >= 0
          /\ Len(yielded) = stopAt
          /\ published = stopAt
          /\ tx = <<"s", "x">>
          /\ file # "open"
          /\ (filename # "none" => file = "closed")

C1_Witness ==
    gui /\ samples0 < 0 /\ pc = "done" /\ stopAt = 2 /\ published = 2

\* C2: a bounded acquisition (samples = n > 0) never yields more than n
\* frames nor reads more than n frames' bytes; without a stop request it
\* ends having yielded exactly n frames, sent 'x' and closed the log; and it
\* does end unless a read fails.
C2_Bounded ==
    samples0 > 0 =>
        /\ Len(yielded) <= samples0
        /\ nread <= FrameBytes * samples0
        /\ (pc = "done" /\ stopAt = -1) =>
              /\ Len(yielded) = samples0
              /\ nread = FrameBytes * samples0
              /\ tx = <<"s", "x">>
              /\ file # "open"

C2_BoundedTerminates ==
    /\ []C2_Bounded
    /\ (samples0 > 0) ~> (pc = "done" \/ exc = "SerialException")

C2_Witness ==
    samples0 = 2 /\ pc = "done" /\ stopAt = -1 /\ Len(yielded) = 2
        /\ filename # "none"

\* C3: with logging enabled, whenever control is with the consumer (at a
\* yield, or after the stream ended by stop, budget or a failed read) the
\* log records are exactly the frames yielded so far, in order.
ConsumerHasControl == pc \notin {"check", "read", "write", "yield", "teardown"}

C3_LogEqualsYielded ==
    (filename # "none" /\ ConsumerHasControl) => log = yielded

C3_Witness ==
    filename # "none" /\ pc = "raised" /\ exc = "SerialException"
        /\ Len(yielded) = 2 /\ nread > 2 * FrameBytes

\* C4: every log record holds the decoded frame as it was read, never the
\* corrected values the charts ingest.
RawFrames == {DecodeFrame(w) : w \in WireFrames}

C4_LogHoldsRaw ==
    /\ Len(log) <= Len(yielded) + 1
    /\ \A i \in 1..Len(log) :
          /\ log[i] \in RawFrames
          /\ i <= Len(yielded) => log[i] = yielded[i]

C4_Witness ==
    gui /\ pc = "events" /\ Len(log) = 2 /\ ingested[4][2] # log[2][4]
        /\ ingested[4][2] = data[4]

\* C5: while a wrong-arity or unparsable text is in the box, a frame is
\* corrected with the last valid vector the loop had evaluated before.
WrongArityOrUnparsable(t) ==
    \/ PyEval(t).raised
    \/ (PyEval(t).value.type = "list" /\ PyLen(PyEval(t).value) # 3)

C5_MalformedKeepsPrevious ==
    (pc = "update" /\ checks # NoFlags /\ WrongArityOrUnparsable(text))
        => tau = active

\* C6: a malformed coefficient input never makes the loop raise to its
\* caller: the only exception that may leave the loop is a failed read.
C6_MalformedNeverRaises ==
    /\ exc \in {"none", "SerialException"}
    /\ pc = "raised" => exc = "SerialException"

\* C7: when a read fails, the error reaches the caller only after the stop
\* command was sent and the log closed, with the serial link closed.
C7_ReadFailureCleansUp ==
    (pc = "raised" /\ exc = "SerialException") =>
        /\ Count(tx, "x") = 1
        /\ file # "open"
        /\ ser = "closed"

\* C8: after the correction of a frame, each enabled channel holds
\* raw - 2*tau[k]*raw[a]*raw[b] computed from the raw A, B, B' of the same
\* frame, unclamped; raw [10,10,10,5,5,5,2] with tau [0.1,0.1,0.1] and AB
\* only gives [10,10,10,-15,5,5,2].
\* (floats are in units of 1/Scale: x*y*z*w of four such numbers carries
\* Scale^4, one number carries Scale)
Formula(raw, ch, a, b, k) ==
    Scale * Scale * Scale * (raw[ch] - data[ch])
        = Float(2) * tau.items[k] * raw[a] * raw[b]

ExampleRaw == <<Float(10), Float(10), Float(10), Float(5), Float(5), Float(5), Float(2)>>
ExampleCorrected ==
    <<Float(10), Float(10), Float(10), Float(-15), Float(5), Float(5), Float(2)>>

C8_CorrectionFormula ==
    pc = "update" =>
        LET raw == Last(yielded) IN
        /\ checks[1] => Formula(raw, 4, 1, 2, 1)
        /\ checks[2] => Formula(raw, 5, 1, 3, 2)
        /\ checks[3] => Formula(raw, 6, 2, 3, 3)
        /\ (raw = ExampleRaw /\ tau = PyList(<<1, 1, 1>>)
               /\ checks = <<TRUE, FALSE, FALSE>>) => data = ExampleCorrected

C8_Witness ==
    /\ pc = "update"
    /\ Last(yielded) = ExampleRaw
    /\ tau = PyList(<<1, 1, 1>>)
    /\ checks = <<TRUE, FALSE, FALSE>>
    /\ data[4] = Float(-15)

\* C9: a correctable channel of the corrected frame depends on its own flag
\* only (any other setting of the other two flags gives the same value, and
\* with its flag off it is the raw value); A, B, B' and ABB' are the raw
\* values whatever the flags and coefficients.
FlagSets == {<<x, y, z>> : x \in BOOLEAN, y \in BOOLEAN, z \in BOOLEAN}

C9_ChannelLocal ==
    pc = "update" =>
        LET raw == Last(yielded) IN
        /\ \A n \in {1, 2, 3, 7} : data[n] = raw[n]
        /\ \A k \in 1..3 : ~checks[k] => data[3 + k] = raw[3 + k]
        /\ \A c \in FlagSets :
              LET r == Correct(raw, c, tau) IN
              r.exc = "none" =>
                  \A k \in 1..3 : c[k] = checks[k] => r.data[3 + k] = data[3 + k]

C9_Witness ==
    /\ pc = "update"
    /\ checks = <<TRUE, TRUE, FALSE>>
    /\ data[4] # Last(yielded)[4]
    /\ data[5] # Last(yielded)[5]
    /\ data[6] = Last(yielded)[6]

\* C10: after k updates a chart of capacity N holds in its window exactly
\* the last min(N, k) ingested values in ingest order, never more than N;
\* so an update of a full window drops exactly the oldest value.
C10_WindowIsLastN ==
    \A n \in 1..NChannels :
        LET c == charts[n]
            k == Len(ingested[n])
            m == Min(c.samples, k)
        IN /\ c.samples >= 1
           /\ c.index = m
           /\ Len(Window(c)) <= c.samples
           /\ Window(c) = SubSeq(ingested[n], k - m + 1, k)

C10_Witness ==
    /\ pc = "chart"
    /\ charts[1].samples = 2
    /\ Len(ingested[1]) = 4
    /\ Window(charts[1]) = <<Float(5), Float(-15)>>
    /\ ingested[1][2] = Float(0)

\* C11: the running sum of a chart starts at 0 and each update adds the
\* ingested value to it, so it is the sum of every value ever ingested,
\* evicted ones included.
RECURSIVE SumSeq(_)
SumSeq(q) == IF q = <<>> THEN 0 ELSE q[1] + SumSeq(Tail(q))

C11_SumInv ==
    \A n \in 1..NChannels : charts[n].sum = SumSeq(ingested[n])

C11_SumStep ==
    \A n \in 1..NChannels :
        ingested'[n] # ingested[n] =>
            charts'[n].sum = charts[n].sum + Last(ingested'[n])

C11_RunningSum == []C11_SumInv /\ [][C11_SumStep]_vars

C11_Witness ==
    /\ pc = "chart"
    /\ Len(ingested[1]) > charts[1].samples
    /\ charts[1].sum = SumSeq(ingested[1])
    /\ charts[1].sum # SumSeq(Window(charts[1]))

\* C15 as stated: the k-th ingested sample is stored with timestamp
\* k*delta_t, and the clock is k*delta_t after k updates.
C15_TimestampAfterAdvance ==
    \A n \in 1..NChannels :
        LET c == charts[n]
            k == Len(ingested[n])
        IN /\ c.time = k * c.delta_t
           /\ \A i \in 1..c.index :
                 WindowTimes(c)[i] = (k - c.index + i) * c.delta_t

\* C15 as amended: update records the sample with the clock as it was
\* before the advance: the k-th ingested sample is stored with timestamp
\* (k-1)*delta_t, and the clock, which starts at 0, is k*delta_t after k
\* updates.
C15_TimestampBeforeAdvance ==
    \A n \in 1..NChannels :
        LET c == charts[n]
            k == Len(ingested[n])
        IN /\ c.time = k * c.delta_t
           /\ \A i \in 1..c.index :
                 WindowTimes(c)[i] = (k - c.index + i - 1) * c.delta_t

C15_Witness ==
    /\ pc = "chart"
    /\ charts[1].samples = 2
    /\ Len(ingested[1]) = 3
    /\ WindowTimes(charts[1]) = <<charts[1].delta_t, 2 * charts[1].delta_t>>
    /\ charts[1].time = 3 * charts[1].delta_t

\* C12: the decoded list of a 28-byte frame has exactly 7 counts in wire
\* order, count i being bytes 4i..4i+3 read with the first wire byte most
\* significant; it is what the frame-at-once decoding gives; seven blocks
\* 00 00 00 01 decode to [1,1,1,1,1,1,1].
WireCount(w, i) ==
    16777216 * w[BlockBytes * (i - 1) + 1] + 65536 * w[BlockBytes * (i - 1) + 2]
        + 256 * w[BlockBytes * (i - 1) + 3] + w[BlockBytes * (i - 1) + 4]

OnesWire ==
    <<0, 0, 0, 1>> \o <<0, 0, 0, 1>> \o <<0, 0, 0, 1>> \o <<0, 0, 0, 1>>
        \o <<0, 0, 0, 1>> \o <<0, 0, 0, 1>> \o <<0, 0, 0, 1>>

C12_DecodeExact ==
    /\ Len(wire) = BlockBytes * Len(data)
    /\ Len(data) <= NChannels
    /\ \A i \in 1..Len(data) : data[i] = Float(WireCount(wire, i))
    /\ Len(wire) = FrameBytes =>
          /\ Len(data) = 7
          /\ data = DecodeFrame(wire)
          /\ (wire = OnesWire =>
                data = <<Float(1), Float(1), Float(1), Float(1), Float(1),
                         Float(1), Float(1)>>)

C12_Witness ==
    /\ pc = "decode"
    /\ Len(wire) = FrameBytes
    /\ SubSeq(wire, 1, 8) = <<1, 2, 3, 4, 0, 255, 0, 7>>
    /\ data[1] = Float(16909060)
    /\ data[2] = Float(16711687)
    /\ data[7] = Float(1)

\* C13: the bytes written to the link are 's' once, before any byte is
\* read, and 'x' once, after the last frame was yielded; a session ended by
\* stop or budget has written exactly <<s, x>>, and nothing is read,
\* yielded or written after 'x'.
C13_Handshake ==
    /\ Count(tx, "s") <= 1
    /\ (nread > 0 \/ yielded # <<>>) => (tx # <<>> /\ tx[1] = "s")
    /\ tx \in {<<>>, <<"s">>, <<"s", "x">>}
    /\ pc = "done" => tx = <<"s", "x">>

C13_AfterStop ==
    Count(tx, "x") = 1 => (nread' = nread /\ yielded' = yielded /\ tx' = tx)

C13_StartStopOnly == []C13_Handshake /\ [][C13_AfterStop]_vars

C13_Witness ==
    gui /\ pc = "done" /\ nread = 3 * FrameBytes /\ tx = <<"s", "x">>

\* C14: once the stream of a session has ended, iterating collect_data
\* again sends no second start byte (nor anything else) and yields nothing.
C14_NonRestartable ==
    /\ Count(tx, "s") <= 1
    /\ Count(tx, "x") >= 1 => Len(tx) = 2

\* C16: at every frame boundary of run_gui's loop and after the loop has
\* ended, every chart has ingested as many samples as frames were yielded
\* and logged, each its own channel of the processed frames in order.
C16_FramesFullyProcessed ==
    (gui /\ pc \in {"check", "teardown", "close", "done", "raised"}) =>
        /\ Len(log) = Len(yielded)
        /\ published = Len(yielded)
        /\ \A n \in 1..NChannels :
              /\ Len(ingested[n]) = Len(yielded)
              /\ \A i \in 1..Len(ingested[n]) :
                    n \in {1, 2, 3, 7} => ingested[n][i] = yielded[i][n]

\* C17: the flags and the vector used for a frame are the widgets' state at
\* one instant: while the frame is corrected the locals equal what the
\* check buttons and the text box hold, and the corrected frame is the
\* correction of the raw frame under exactly that state.
C17_ConsistentSnapshot ==
    /\ pc \in {"evaltau", "apply", "update"} => flags = checks
    /\ pc \in {"apply", "update"} =>
          (~PyEval(text).raised => tau = EvalTau(text, Unbound))
    /\ pc = "update" => data = Correct(Last(yielded), checks, tau).data

C17_Witness ==
    /\ pc = "update"
    /\ flags = <<TRUE, FALSE, TRUE>>
    /\ text = TextValid
    /\ tau = PyList(<<1, 1, 1>>)
    /\ data[4] # Last(yielded)[4]

\* C18: run_gui closes the serial link only after the stop command was
\* written and the log closed, by the step that ends it; once the link is
\* closed nothing is read or written and it is not closed or opened again.
C18_Closed ==
    gui =>
        /\ ser = "closed" => (pc = "done" /\ tx = <<"s", "x">> /\ file = "closed")
        /\ pc = "done" => ser = "closed"

C18_CloseStep ==
    /\ ser' # ser => (ser = "open" /\ pc = "close" /\ ser' = "closed" /\ pc' = "done")
    /\ ser = "closed" => (tx' = tx /\ nread' = nread)

C18_LinkClosedOnce == []C18_Closed /\ [][C18_CloseStep]_vars

C18_Witness ==
    gui /\ pc = "done" /\ ser = "closed" /\ stopAt = 1 /\ Len(log) = 1

\* C19 as stated: the correction leaves the list the stream yielded as it
\* was.
C19_FrameImmutable ==
    (gui /\ pc \in {"update", "events"}) => data = Last(yielded)

\* C19 as amended: the correction writes into the list the stream yielded:
\* for each enabled flag that list's own element AB, AB' or BB' becomes
\* raw - 2*tau[k]*rate*rate, and no new frame is made; the list keeps its
\* yielded values in A, B, B', ABB' and in every channel whose flag is off,
\* and the record written before still holds the frame as yielded.
Estimate(raw, a, b, k) == Float(2) * tau.items[k] * raw[a] * raw[b]

InPlace(raw, on, ch, a, b, k) ==
    IF on THEN Scale * Scale * Scale * (raw[ch] - data[ch]) = Estimate(raw, a, b, k)
          ELSE data[ch] = raw[ch]

C19_CorrectedInPlace ==
    pc = "update" =>
        LET raw == Last(yielded) IN
        /\ InPlace(raw, flags[1], 4, 1, 2, 1)
        /\ InPlace(raw, flags[2], 5, 1, 3, 2)
        /\ InPlace(raw, flags[3], 6, 2, 3, 3)
        /\ \A n \in {1, 2, 3, 7} : data[n] = raw[n]
        /\ Last(log) = raw

C19_Witness ==
    /\ pc = "update"
    /\ flags = <<FALSE, FALSE, TRUE>>
    /\ data[6] # Last(yielded)[6]
    /\ data[4] = Last(yielded)[4]

\* C20: a session that can deliver no frame (samples = 0, or stop requested
\* before the first frame is requested) reads nothing, yields nothing and
\* logs nothing, yet writes 's' then 'x' and closes the log.
C20_EmptySession ==
    /\ (samples0 = 0 \/ stopAt = 0) =>
          (nread = 0 /\ yielded = <<>> /\ log = <<>> /\ pc \notin {"read", "write", "yield"})
    /\ ((samples0 = 0 \/ stopAt = 0) /\ pc = "done") =>
          (tx = <<"s", "x">> /\ file # "open")

C20_Witness ==
    /\ pc = "done"
    /\ stopAt = 0
    /\ samples0 = 2
    /\ filename # "none"
    /\ file = "closed"

====
